---- MODULE Spec2Model ----
(***************************************************************************)
(* CodeCounter-rs: a terminal dashboard that counts lines of code under    *)
(* the working directory (src/src/main.rs).                                *)
(*                                                                         *)
(* The module holds five specifications over one set of variables:         *)
(*   Spec          main() and App::run: terminal setup, the draw/poll/read *)
(*                 loop, refresh, quit, terminal restoration;              *)
(*   SpecScan      scan_directory / App::new / App::refresh over bounded   *)
(*                 directory trees and root paths;                         *)
(*   SpecLines     count_lines over bounded byte strings;                  *)
(*   SpecDuration  format_duration over bounded elapsed spans;             *)
(*   SpecArt       format_with_commas / ascii_art_number over bounded      *)
(*                 unsigned integers.                                      *)
(*                                                                         *)
(* Text is modelled as sequences of one-character strings, or as TLA+      *)
(* strings where only equality and concatenation are needed.  A file name  *)
(* or directory name is the sequence of its dot-separated segments:        *)
(* <<"main", "rs">> is main.rs and <<"", "git">> is .git.                  *)
(***************************************************************************)
EXTENDS Integers, Sequences, FiniteSets, TLC

VARIABLES
    pc,          \* position of main(): see PcValues
    rawMode,     \* terminal is in raw mode
    altScreen,   \* terminal shows the alternate screen
    cursorHidden,\* the cursor is hidden (a drawn frame hides it)
    app,         \* <<>> before App::new, <<[scan, last_scan]>> after
    res,         \* `res` of main(): "none" until App::run has returned
    exitResult,  \* what main() returned: "none" while it runs
    attempted,   \* restoration calls main() has made so far
    cwd,         \* the process's working directory (startup value)
    cwdOk,       \* whether std::env::current_dir() succeeds
    fs,          \* the filesystem under cwd
    now,         \* clock (Instant::now / Local::now), in poll ticks
    event,       \* this iteration's event: none yet, a timeout, or what
                 \* event::read() returned
    frames,      \* frames drawn so far
    iters,       \* loop iterations completed so far
    scans,       \* calls of scan_directory so far
    arg,         \* input of the function under study (function specifications)
    ret,         \* its result
    stage        \* "input" before it is applied, "output" after

vars == <<pc, rawMode, altScreen, cursorHidden, app, res, exitResult, attempted,
          cwd, cwdOk, fs, now, event, frames, iters, scans, arg, ret, stage>>

mainVars == <<pc, rawMode, altScreen, cursorHidden, app, res, exitResult,
              attempted, cwd, cwdOk, fs, now, event, frames, iters, scans>>

funVars == <<arg, ret, stage>>

(***************************************************************************)
(* Result<T, E>                                                            *)
(***************************************************************************)
Ok(v) == [ok |-> TRUE, val |-> v]

Err(e) == [ok |-> FALSE, err |-> e]

(***************************************************************************)
(* Small helpers on sequences and sets.                                    *)
(***************************************************************************)
RECURSIVE Reverse(_)
Reverse(s) == IF s = <<>> THEN <<>> ELSE Reverse(Tail(s)) \o <<Head(s)>>

RECURSIVE Repeat(_, _)
Repeat(x, n) == IF n = 0 THEN <<>> ELSE <<x>> \o Repeat(x, n - 1)

RECURSIVE SeqsUpTo(_, _)
SeqsUpTo(S, n) ==
    IF n = 0 THEN {<<>>}
    ELSE LET shorter == SeqsUpTo(S, n - 1)
         IN  shorter \cup {Append(s, x) : s \in shorter, x \in S}

(***************************************************************************)
(* count_lines (main.rs 331-345)                                           *)
(***************************************************************************)
NEWLINE == 10

\* line 340: the number of newline bytes.
RECURSIVE CountNewlines(_)
CountNewlines(buf) ==
    IF buf = <<>> THEN 0
    ELSE (IF Head(buf) = NEWLINE THEN 1 ELSE 0) + CountNewlines(Tail(buf))

\* A count that forgets the last line when no newline ends it.
CountBytes_NoPartialLine(buf) ==
    IF buf = <<>> THEN 0 ELSE CountNewlines(buf)

\* lines 336-344: the count over the bytes read.
CountBytes(buf) ==
    IF buf = <<>> THEN 0
    ELSE LET count == CountNewlines(buf)
         IN  IF buf[Len(buf)] # NEWLINE THEN count + 1 ELSE count

\* lines 331-345: File::open and read_to_end fail on an unreadable file.
CountLines(file) ==
    IF ~file.readable THEN Err("io") ELSE Ok(CountBytes(file.content))

(***************************************************************************)
(* format_duration (main.rs 245-274)                                       *)
(***************************************************************************)
ms_in_day == 86400000

ms_in_hour == 3600000

ms_in_minute == 60000

ms_in_second == 1000

RECURSIVE Join(_, _)
Join(parts, sep) ==
    IF parts = <<>> THEN ""
    ELSE IF Len(parts) = 1 THEN parts[1]
    ELSE parts[1] \o sep \o Join(Tail(parts), sep)

\* The parts with the emptiness test of line 269 made before the seconds
\* are pushed.
DurationParts_EmptyBeforeSeconds(total_ms) ==
    LET days    == total_ms \div ms_in_day
        hours   == (total_ms % ms_in_day) \div ms_in_hour
        minutes == (total_ms % ms_in_hour) \div ms_in_minute
        seconds == (total_ms % ms_in_minute) \div ms_in_second
        millis  == total_ms % ms_in_second
        p1 == IF days > 0 THEN <<ToString(days) \o "d">> ELSE <<>>
        p2 == IF hours > 0 THEN Append(p1, ToString(hours) \o "h") ELSE p1
        p3 == IF minutes > 0 THEN Append(p2, ToString(minutes) \o "m") ELSE p2
        p4 == Append(p3, ToString(seconds) \o "s")
    IN  IF millis > 0 \/ p3 = <<>> THEN Append(p4, ToString(millis) \o "ms") ELSE p4

\* lines 252-271: the parts pushed, in order.
DurationParts(total_ms) ==
    LET days    == total_ms \div ms_in_day
        hours   == (total_ms % ms_in_day) \div ms_in_hour
        minutes == (total_ms % ms_in_hour) \div ms_in_minute
        seconds == (total_ms % ms_in_minute) \div ms_in_second
        millis  == total_ms % ms_in_second
        p1 == IF days > 0 THEN <<ToString(days) \o "d">> ELSE <<>>
        p2 == IF hours > 0 THEN Append(p1, ToString(hours) \o "h") ELSE p1
        p3 == IF minutes > 0 THEN Append(p2, ToString(minutes) \o "m") ELSE p2
        p4 == Append(p3, ToString(seconds) \o "s")
    IN  IF millis > 0 \/ p4 = <<>> THEN Append(p4, ToString(millis) \o "ms") ELSE p4

\* line 273: parts.join(" ")
FormatDuration(total_ms) == Join(DurationParts(total_ms), " ")

(***************************************************************************)
(* format_with_commas, expand_scaled_row, ascii_art_number                 *)
(* (main.rs 19-34, 204-243, 276-293)                                       *)
(***************************************************************************)
DIGIT_HEIGHT == 5

SCALE_X == 4

SCALE_Y == 2

\* The glyph tables, 1 for the block character and 0 for a space.
DIGITS ==
    << << <<0,1,1,1,0>>, <<1,0,0,0,1>>, <<1,0,0,0,1>>, <<1,0,0,0,1>>, <<0,1,1,1,0>> >>,
       << <<0,0,1,0,0>>, <<0,1,1,0,0>>, <<0,0,1,0,0>>, <<0,0,1,0,0>>, <<0,1,1,1,0>> >>,
       << <<0,1,1,1,0>>, <<1,0,0,0,1>>, <<0,0,0,1,0>>, <<0,0,1,0,0>>, <<1,1,1,1,1>> >>,
       << <<0,1,1,1,0>>, <<1,0,0,0,1>>, <<0,0,1,1,0>>, <<1,0,0,0,1>>, <<0,1,1,1,0>> >>,
       << <<1,0,0,0,1>>, <<1,0,0,0,1>>, <<1,1,1,1,1>>, <<0,0,0,0,1>>, <<0,0,0,0,1>> >>,
       << <<1,1,1,1,1>>, <<1,0,0,0,0>>, <<1,1,1,1,0>>, <<0,0,0,0,1>>, <<1,1,1,1,0>> >>,
       << <<0,1,1,1,0>>, <<1,0,0,0,0>>, <<1,1,1,1,0>>, <<1,0,0,0,1>>, <<0,1,1,1,0>> >>,
       << <<1,1,1,1,1>>, <<0,0,0,0,1>>, <<0,0,0,1,0>>, <<0,0,1,0,0>>, <<0,0,1,0,0>> >>,
       << <<0,1,1,1,0>>, <<1,0,0,0,1>>, <<0,1,1,1,0>>, <<1,0,0,0,1>>, <<0,1,1,1,0>> >>,
       << <<0,1,1,1,0>>, <<1,0,0,0,1>>, <<0,1,1,1,1>>, <<0,0,0,0,1>>, <<0,1,1,1,0>> >> >>

COMMA == << <<0,0,0>>, <<0,0,0>>, <<0,0,0>>, <<0,1,0>>, <<1,0,0>> >>

BlankGlyphRow == <<0,0,0,0,0>>

\* u64::to_string: the decimal digits, most significant first.
RECURSIVE ToDecimal(_)
ToDecimal(value) ==
    IF value < 10 THEN <<ToString(value)>>
    ELSE Append(ToDecimal(value \div 10), ToString(value % 10))

\* lines 233-241: the loop over the reversed digits; `rev` is what is left
\* of raw.chars().rev(), `count` and `out` are the loop's variables.
RECURSIVE CommaLoop(_, _, _)
CommaLoop(rev, count, out) ==
    IF rev = <<>> THEN out
    ELSE IF count = 3
         THEN CommaLoop(Tail(rev), 1, out \o <<",", Head(rev)>>)
         ELSE CommaLoop(Tail(rev), count + 1, Append(out, Head(rev)))

FormatWithCommas(value) == Reverse(CommaLoop(Reverse(ToDecimal(value)), 0, <<>>))

\* lines 276-293: every cell becomes SCALE_X cells.
RECURSIVE ExpandScaledRow(_)
ExpandScaledRow(row) ==
    IF row = <<>> THEN <<>>
    ELSE Repeat(IF Head(row) = 1 THEN "#" ELSE " ", SCALE_X)
         \o ExpandScaledRow(Tail(row))

IsDigitChar(ch) == \E d \in 0..9 : ToString(d) = ch

ToDigit(ch) == CHOOSE d \in 0..9 : ToString(d) = ch

\* lines 216-220
Pattern(ch, row) ==
    IF IsDigitChar(ch) THEN DIGITS[ToDigit(ch) + 1][row]
    ELSE IF ch = "," THEN COMMA[row]
    ELSE BlankGlyphRow

\* A gap before every glyph but the first, commas included.
Gap_Always(chars, idx) ==
    IF idx > 1 THEN <<" ", " ">> ELSE <<>>

\* lines 210-215: the gap pushed before glyph idx (1-based here).
Gap(chars, idx) ==
    IF idx > 1 /\ chars[idx] # "," /\ chars[idx - 1] # "," THEN <<" ", " ">> ELSE <<>>

\* lines 208-222: one row of the block, glyphs idx..Len(chars).
RECURSIVE ArtLine(_, _, _)
ArtLine(chars, row, idx) ==
    IF idx > Len(chars) THEN <<>>
    ELSE Gap(chars, idx) \o ExpandScaledRow(Pattern(chars[idx], row))
         \o ArtLine(chars, row, idx + 1)

\* lines 207-226: rows 1..DIGIT_HEIGHT, each pushed SCALE_Y times.
RECURSIVE ArtRows(_, _)
ArtRows(chars, row) ==
    IF row > DIGIT_HEIGHT THEN <<>>
    ELSE Repeat(ArtLine(chars, row, 1), SCALE_Y) \o ArtRows(chars, row + 1)

AsciiArtNumber(value) == ArtRows(FormatWithCommas(value), 1)

(***************************************************************************)
(* The filesystem.  A path is a sequence of components and a component is  *)
(* the sequence of its dot-separated segments.  A tree is                  *)
(*   [rootOk |-> the root can be opened,                                   *)
(*    files  |-> the set of non-directory entries under the root];         *)
(* a file is [dir, name, kind, readable, content], dir relative to the     *)
(* root.  The directories are the prefixes of the files' dirs.  A          *)
(* directory named "locked" cannot be listed (permission denied).          *)
(***************************************************************************)
CODE_EXTENSIONS ==
    {"rs", "py", "pyw", "pyi", "ipynb", "js", "mjs", "cjs", "jsm", "ts",
     "mts", "cts", "jsx", "tsx", "java", "kt", "kts", "groovy", "gradle",
     "gvy", "gy", "gsh", "scala", "sc", "sbt", "swift", "c", "h", "cc",
     "cxx", "cpp", "hpp", "hh", "hxx", "inl", "ipp", "tpp", "inc", "idl",
     "d", "di", "m", "mm", "go", "rs", "zig", "nim", "nimble", "v", "cr",
     "hs", "lhs", "ml", "mli", "mll", "mly", "re", "rei", "fs", "fsi",
     "fsx", "fsproj", "cs", "csx", "vb", "vbs", "bas", "pas", "rb", "erb",
     "rake", "gemspec", "php", "phtml", "phpt", "twig", "blade", "pl",
     "pm", "r", "rmd", "jl", "dart", "elm", "clj", "cljs", "cljc", "edn",
     "ex", "exs", "erl", "hrl", "lua", "nu", "sh", "bash", "zsh", "fish",
     "ps1", "psm1", "psd1", "bat", "cmd", "asm", "s", "sql", "psql",
     "pgsql", "mysql", "sqlite", "sqlite3", "ddl", "dml", "proto",
     "thrift", "avsc", "avdl", "graphql", "gql", "prisma", "tf", "tfvars",
     "hcl", "cue", "rego", "html", "htm", "xhtml", "xml", "xsd", "xsl",
     "xslt", "css", "scss", "sass", "less", "styl", "stylus", "postcss",
     "md", "mdx", "markdown", "rst", "adoc", "asciidoc", "org", "tex",
     "latex", "sty", "cls", "bib", "toml", "yaml", "yml", "json", "jsonc",
     "json5", "ini", "cfg", "conf", "properties", "env", "make", "mk",
     "cmake", "vue", "svelte", "astro"}

\* Component::as_os_str().to_string_lossy(): the component's text.
ComponentName(segs) == Join(segs, ".")

\* is_ignored (main.rs 321-329): any component of the whole path.
IsIgnored(path) ==
    \E i \in 1..Len(path) :
        \/ ComponentName(path[i]) = ".git"
        \/ ComponentName(path[i]) = "target"
        \/ ComponentName(path[i]) = "node_modules"

\* Path::extension: nothing when the name has no dot, or only a leading one.
Extension(name) ==
    IF Len(name) = 1 THEN <<>>
    ELSE IF Len(name) = 2 /\ name[1] = "" THEN <<>>
    ELSE <<name[Len(name)]>>

\* str::to_lowercase on the extensions that occur in the model.
LowerTable == [x \in {"RS", "Rs", "GZ", "JS", "MD"} |->
                 CASE x = "RS" -> "rs" [] x = "Rs" -> "rs" [] x = "GZ" -> "gz"
                   [] x = "JS" -> "js" [] x = "MD" -> "md"]

ToLowercase(s) == IF s \in DOMAIN LowerTable THEN LowerTable[s] ELSE s

\* is_code_file (main.rs 347-353)
IsCodeFile(name) ==
    LET ext == Extension(name)
    IN  IF ext = <<>> THEN FALSE ELSE ToLowercase(ext[1]) \in CODE_EXTENSIONS

Prefixes(path) == {SubSeq(path, 1, k) : k \in 0..Len(path)}

DirsOf(fsys) == UNION {Prefixes(f.dir) : f \in fsys.files}

ChildDirs(fsys, d) == {c \in DirsOf(fsys) : Len(c) = Len(d) + 1 /\ SubSeq(c, 1, Len(d)) = d}

FilesIn(fsys, d) == {f \in fsys.files : f.dir = d}

IsLocked(d) == d # <<>> /\ ComponentName(d[Len(d)]) = "locked"

DirEntry(d) == [dir |-> d, name |-> <<>>, kind |-> "dir", readable |-> TRUE, content |-> <<>>]

\* WalkDir::new(&dir).into_iter().filter_entry(|e| !is_ignored(e.path()))
\* (main.rs 299): the items the iterator yields from directory d down, Ok
\* entries and Err items.  The predicate sees every entry, the root
\* included, with its whole path (root joined with the relative path); a
\* rejected directory is not descended into.  Symbolic links are not
\* followed.
RECURSIVE WalkFrom(_, _, _)
WalkFrom(root, fsys, d) ==
    IF IsIgnored(root \o d) THEN {}
    ELSE {Ok(DirEntry(d))}
         \cup (IF IsLocked(d) THEN {Err(d)}
               ELSE {Ok(f) : f \in {g \in FilesIn(fsys, d) :
                                      ~IsIgnored(root \o d \o <<g.name>>)}}
                    \cup UNION {WalkFrom(root, fsys, c) : c \in ChildDirs(fsys, d)})

Walk(root, fsys) ==
    IF ~fsys.rootOk THEN {Err(<<>>)} ELSE WalkFrom(root, fsys, <<>>)

\* Result::unwrap_or
UnwrapOr(r, default) == IF r.ok THEN r.val ELSE default

\* lines 301-311: the entries that pass `Err(_) => continue` and the test
\* of line 307.
CountedFiles(root, fsys) ==
    {i.val : i \in {j \in Walk(root, fsys) :
                      j.ok /\ j.val.kind = "file" /\ IsCodeFile(j.val.name)}}

RECURSIVE SumLines(_)
SumLines(S) ==
    IF S = {} THEN 0
    ELSE LET f == CHOOSE g \in S : TRUE
         IN  UnwrapOr(CountLines(f), 0) + SumLines(S \ {f})

\* A scan that gives up at the first failing entry or unreadable file.
ScanDirectory_FailFast(dir, fsys, t) ==
    IF \E i \in Walk(dir, fsys) : ~i.ok THEN Err("walk")
    ELSE IF \E f \in CountedFiles(dir, fsys) : ~CountLines(f).ok THEN Err("io")
    ELSE Ok([lines |-> SumLines(CountedFiles(dir, fsys)),
             files |-> Cardinality(CountedFiles(dir, fsys)),
             dir |-> dir, scanned_at |-> t])

\* A scan that reports the canonical parent of the directory it was given.
ScanDirectory_OtherDir(dir, fsys, t) ==
    Ok([lines |-> SumLines(CountedFiles(dir, fsys)),
        files |-> Cardinality(CountedFiles(dir, fsys)),
        dir |-> SubSeq(dir, 1, Len(dir) - 1), scanned_at |-> t])

\* scan_directory (main.rs 295-319); t is Local::now() at line 317.
ScanDirectory(dir, fsys, t) ==
    Ok([lines |-> SumLines(CountedFiles(dir, fsys)),
        files |-> Cardinality(CountedFiles(dir, fsys)),
        dir |-> dir, scanned_at |-> t])

\* App::new (main.rs 86-92); cur is the result of std::env::current_dir().
AppNew(cur, fsys, t) ==
    IF ~cur.ok THEN Err("current_dir")
    ELSE LET scan == ScanDirectory(cur.val, fsys, t)
         IN  IF ~scan.ok THEN scan
             ELSE Ok([scan |-> scan.val, last_scan |-> t])

\* App::refresh (main.rs 110-115): the new App on success.
AppRefresh(a, fsys, t) ==
    LET scan == ScanDirectory(a.scan.dir, fsys, t)
    IN  IF ~scan.ok THEN scan
        ELSE Ok([scan |-> scan.val, last_scan |-> t])

(***************************************************************************)
(* The main program's variables while a function specification runs, and   *)
(* the function variables while the main program runs.                     *)
(***************************************************************************)
NoScan == [lines |-> 0, files |-> 0, dir |-> <<>>, scanned_at |-> 0]

NoFs == [rootOk |-> TRUE, files |-> {}]

NoEvent == [kind |-> "none", code |-> ""]

MainIdle ==
    /\ pc = "off" /\ rawMode = FALSE /\ altScreen = FALSE /\ cursorHidden = FALSE
    /\ app = <<>> /\ res = "none" /\ exitResult = "none" /\ attempted = {}
    /\ cwd = <<>> /\ cwdOk = TRUE /\ fs = NoFs /\ now = 0 /\ event = NoEvent
    /\ frames = 0 /\ iters = 0 /\ scans = 0

FunIdle == arg = <<>> /\ ret = <<>> /\ stage = "off"

(***************************************************************************)
(* SpecLines: count_lines applied to every file of at most MaxLen bytes.   *)
(***************************************************************************)
MaxLen == 4

ByteValues == {0, 10, 13, 65}

LineFiles ==
    {[content |-> b, readable |-> r] : b \in SeqsUpTo(ByteValues, MaxLen), r \in BOOLEAN}

InitLines == MainIdle /\ arg \in LineFiles /\ ret = <<>> /\ stage = "input"

ApplyCountLines ==
    /\ stage = "input"
    /\ ret' = CountLines(arg)
    /\ stage' = "output"
    /\ UNCHANGED <<mainVars, arg>>

NextLines == ApplyCountLines

SpecLines == InitLines /\ [][NextLines]_vars

(***************************************************************************)
(* SpecDuration: format_duration applied to spans built from every unit.   *)
(***************************************************************************)
MaxDays == 1

DurationInputs ==
    {d * ms_in_day + h * ms_in_hour + m * ms_in_minute + s * ms_in_second + ms :
        d \in 0..MaxDays, h \in {0, 1, 23}, m \in {0, 1, 59},
        s \in {0, 1, 30, 59}, ms \in {0, 1, 500, 999}}

InitDuration == MainIdle /\ arg \in DurationInputs /\ ret = <<>> /\ stage = "input"

ApplyFormatDuration ==
    /\ stage = "input"
    /\ ret' = [parts |-> DurationParts(arg), text |-> FormatDuration(arg)]
    /\ stage' = "output"
    /\ UNCHANGED <<mainVars, arg>>

NextDuration == ApplyFormatDuration

SpecDuration == InitDuration /\ [][NextDuration]_vars

(***************************************************************************)
(* SpecArt: ascii_art_number applied to integers of 1..MaxDigits digits.   *)
(***************************************************************************)
MaxDigits == 7

RECURSIVE Pow10(_)
Pow10(n) == IF n = 0 THEN 1 ELSE 10 * Pow10(n - 1)

\* 0, and for every length: the smallest and largest number of that length
\* and numbers with a varied digit in each position.
ArtInputs ==
    {0} \cup {Pow10(n - 1) : n \in 1..MaxDigits}
        \cup {Pow10(n) - 1 : n \in 1..MaxDigits}
        \cup {Pow10(n - 1) + k * Pow10(j) + 7 :
                 n \in 2..MaxDigits, k \in 0..8, j \in 0..(MaxDigits - 1)}

InitArt == MainIdle /\ arg \in ArtInputs /\ ret = <<>> /\ stage = "input"

ApplyAsciiArtNumber ==
    /\ stage = "input"
    /\ ret' = [text |-> FormatWithCommas(arg), rows |-> AsciiArtNumber(arg)]
    /\ stage' = "output"
    /\ UNCHANGED <<mainVars, arg>>

NextArt == ApplyAsciiArtNumber

SpecArt == InitArt /\ [][NextArt]_vars

(***************************************************************************)
(* SpecScan: App::new and App::refresh (hence scan_directory) applied to   *)
(* every root path of Roots and every tree of at most MaxFiles files       *)
(* drawn from CandidateFiles.                                              *)
(***************************************************************************)
MaxFiles == 3

File(dir, name, kind, readable, content) ==
    [dir |-> dir, name |-> name, kind |-> kind, readable |-> readable,
     content |-> content]

ThreeLinesNoNewline == <<97, 10, 98, 10, 99>>

TwoLines == <<97, 10, 98, 10>>

OneLine == <<97, 10>>

CandidateFiles ==
    { File(<<>>, <<"main", "rs">>, "file", TRUE, ThreeLinesNoNewline),
      File(<<>>, <<"README", "md">>, "file", TRUE, TwoLines),
      File(<< <<"node_modules">> >>, <<"lib", "js">>, "file", TRUE, TwoLines),
      File(<< <<"a">>, <<"", "git">>, <<"x">> >>, <<"y", "rs">>, "file", TRUE, OneLine),
      File(<< <<"target">>, <<"debug">> >>, <<"build", "rs">>, "file", TRUE, OneLine),
      File(<< <<"a">> >>, <<"Main", "RS">>, "file", TRUE, OneLine),
      File(<< <<"a">> >>, <<"notes">>, "file", TRUE, TwoLines),
      File(<< <<"a">> >>, <<"b", "txt">>, "file", TRUE, TwoLines),
      File(<< <<"a">> >>, <<"link", "rs">>, "symlink", TRUE, <<>>),
      File(<< <<"a">> >>, <<"secret", "py">>, "file", FALSE, TwoLines),
      File(<< <<"locked">> >>, <<"c", "c">>, "file", TRUE, OneLine),
      File(<<>>, <<"empty", "py">>, "file", TRUE, <<>>),
      File(<<>>, <<"target", "rs">>, "file", TRUE, OneLine),
      File(<< <<"Target">> >>, <<"x", "rs">>, "file", TRUE, OneLine),
      File(<<>>, <<"", "gitignore">>, "file", TRUE, OneLine),
      File(<<>>, <<"data", "tar", "GZ">>, "file", TRUE, OneLine) }

\* Working directories: an ordinary one, one below a directory named
\* target, and one that is itself named node_modules.
Roots ==
    { << <<"home">>, <<"u">>, <<"proj">> >>,
      << <<"home">>, <<"target">>, <<"proj">> >>,
      << <<"srv">>, <<"node_modules">> >> }

Trees ==
    {[rootOk |-> r, files |-> F] :
        r \in BOOLEAN,
        F \in {S \in SUBSET CandidateFiles : Cardinality(S) <= MaxFiles}}

InitScan ==
    /\ pc = "off" /\ rawMode = FALSE /\ altScreen = FALSE /\ cursorHidden = FALSE
    /\ app = <<>> /\ res = "none" /\ exitResult = "none" /\ attempted = {}
    /\ cwd \in Roots /\ cwdOk = TRUE /\ fs \in Trees /\ now = 0 /\ event = NoEvent
    /\ frames = 0 /\ iters = 0 /\ scans = 0
    /\ arg = <<>> /\ ret = <<>> /\ stage = "input"

\* App::new on the working directory.
ScanNew ==
    /\ stage = "input"
    /\ LET made == AppNew(Ok(cwd), fs, now + 1)
       IN  /\ ret' = [scan |-> ScanDirectory(cwd, fs, now + 1), op |-> made,
                      visited |-> {i.val : i \in {j \in Walk(cwd, fs) : j.ok}}]
           /\ app' = IF made.ok THEN <<made.val>> ELSE app
    /\ now' = now + 1
    /\ scans' = scans + 1
    /\ stage' = "new"
    /\ UNCHANGED <<pc, rawMode, altScreen, cursorHidden, res, exitResult,
                   attempted, cwd, cwdOk, fs, event, frames, iters, arg>>

\* App::refresh on the App that App::new made, the filesystem unchanged.
ScanRefresh ==
    /\ stage = "new"
    /\ app # <<>>
    /\ LET made == AppRefresh(app[1], fs, now + 1)
       IN  /\ ret' = [scan |-> ScanDirectory(app[1].scan.dir, fs, now + 1),
                      op |-> made,
                      visited |-> {i.val : i \in {j \in Walk(app[1].scan.dir, fs) : j.ok}}]
           /\ app' = IF made.ok THEN <<made.val>> ELSE app
    /\ now' = now + 1
    /\ scans' = scans + 1
    /\ stage' = "refreshed"
    /\ UNCHANGED <<pc, rawMode, altScreen, cursorHidden, res, exitResult,
                   attempted, cwd, cwdOk, fs, event, frames, iters, arg>>

NextScan == ScanNew \/ ScanRefresh

SpecScan == InitScan /\ [][NextScan]_vars

(***************************************************************************)
(* Spec: main() (main.rs 63-78) and App::run (94-108).                     *)
(*                                                                         *)
(* pc is the call main() is about to make:                                 *)
(*   enable_raw, enter_alt, terminal_new, app_new      lines 64-70         *)
(*   draw, poll, read, dispatch                        lines 96-104        *)
(*   disable_raw, leave_alt, show_cursor, return       lines 73-77         *)
(*   exit                                              main() has returned *)
(* Every call that the code follows with `?` can fail; main() then returns *)
(* that error at once.                                                     *)
(***************************************************************************)
MaxClock == 3

MaxFrames == 3

KeyCodes == {"q", "Q", "Esc", "r", "R", "Enter", "x", "Tab"}

Events ==
    {[kind |-> "key", code |-> c] : c \in KeyCodes}
        \cup {[kind |-> "resize", code |-> ""], [kind |-> "mouse", code |-> ""]}

\* The match of lines 100-104, written for the one that lets only the
\* lower-case letter quit.
KeyClass_LowerCaseQuit(code) ==
    IF code \in {"q", "Esc"} THEN "quit"
    ELSE IF code \in {"r", "R", "Enter"} THEN "refresh"
    ELSE "other"

\* ... and for the one that rescans on every key that does not quit.
KeyClass_AnyKeyRefreshes(code) ==
    IF code \in {"q", "Q", "Esc"} THEN "quit" ELSE "refresh"

\* The match of lines 100-104.
KeyClass(code) ==
    IF code \in {"q", "Q", "Esc"} THEN "quit"
    ELSE IF code \in {"r", "R", "Enter"} THEN "refresh"
    ELSE "other"

\* What event the loop does with an event: line 99 lets only keys through.
EventClass(e) == IF e.kind = "key" THEN KeyClass(e.code) ELSE "other"

\* A main() that hands the loop's error on with `?` (line 71).
AfterRun_Propagate(result) == IF result = "ok" THEN "disable_raw" ELSE "return"

\* Line 71 keeps the loop's result in `res`; line 73 comes next whatever
\* the result.
AfterRun(result) == "disable_raw"

\* The trees the working directory holds while the dashboard runs.
SampleTrees ==
    { [rootOk |-> TRUE, files |-> {}],
      [rootOk |-> TRUE,
       files |-> {f \in CandidateFiles :
                    ComponentName(f.name) \in {"main.rs", "README.md", "lib.js"}}],
      [rootOk |-> TRUE,
       files |-> {f \in CandidateFiles :
                    ComponentName(f.name) \in {"main.rs", "secret.py", "c.c"}}] }

Init ==
    /\ pc = "enable_raw" /\ rawMode = FALSE /\ altScreen = FALSE
    /\ cursorHidden = FALSE
    /\ app = <<>> /\ res = "none" /\ exitResult = "none" /\ attempted = {}
    /\ cwd \in Roots /\ cwdOk \in BOOLEAN /\ fs \in SampleTrees
    /\ now = 0 /\ event = NoEvent /\ frames = 0 /\ iters = 0 /\ scans = 0
    /\ FunIdle

\* main() returns error e at once (a `?` of lines 64-70, 73-75).
ReturnEarly(e) ==
    /\ pc' = "exit"
    /\ exitResult' = e

\* line 64
EnableRawModeOk ==
    /\ pc = "enable_raw"
    /\ rawMode' = TRUE
    /\ pc' = "enter_alt"
    /\ UNCHANGED <<altScreen, cursorHidden, app, res, exitResult, attempted, cwd,
                   cwdOk, fs, now, event, frames, iters, scans, funVars>>

EnableRawModeFails ==
    /\ pc = "enable_raw"
    /\ ReturnEarly("raw_err")
    /\ UNCHANGED <<rawMode, altScreen, cursorHidden, app, res, attempted, cwd,
                   cwdOk, fs, now, event, frames, iters, scans, funVars>>

\* line 66
EnterAlternateScreenOk ==
    /\ pc = "enter_alt"
    /\ altScreen' = TRUE
    /\ pc' = "terminal_new"
    /\ UNCHANGED <<rawMode, cursorHidden, app, res, exitResult, attempted, cwd,
                   cwdOk, fs, now, event, frames, iters, scans, funVars>>

EnterAlternateScreenFails ==
    /\ pc = "enter_alt"
    /\ ReturnEarly("alt_err")
    /\ UNCHANGED <<rawMode, altScreen, cursorHidden, app, res, attempted, cwd,
                   cwdOk, fs, now, event, frames, iters, scans, funVars>>

\* line 68
TerminalNewOk ==
    /\ pc = "terminal_new"
    /\ pc' = "app_new"
    /\ UNCHANGED <<rawMode, altScreen, cursorHidden, app, res, exitResult,
                   attempted, cwd, cwdOk, fs, now, event, frames, iters, scans,
                   funVars>>

TerminalNewFails ==
    /\ pc = "terminal_new"
    /\ ReturnEarly("term_err")
    /\ UNCHANGED <<rawMode, altScreen, cursorHidden, app, res, attempted, cwd,
                   cwdOk, fs, now, event, frames, iters, scans, funVars>>

\* line 70: App::new()?
AppNewStep ==
    /\ pc = "app_new"
    /\ LET cur == IF cwdOk THEN Ok(cwd) ELSE Err("current_dir")
           made == AppNew(cur, fs, now + 1)
       IN  IF made.ok
           THEN /\ app' = <<made.val>>
                /\ pc' = "draw"
                /\ now' = now + 1
                /\ scans' = scans + 1
                /\ UNCHANGED exitResult
           ELSE /\ ReturnEarly(IF cwdOk THEN "scan_err" ELSE "cwd_err")
                /\ scans' = IF cwdOk THEN scans + 1 ELSE scans
                /\ UNCHANGED <<app, now>>
    /\ UNCHANGED <<rawMode, altScreen, cursorHidden, res, attempted, cwd, cwdOk,
                   fs, event, frames, iters, funVars>>

\* App::run returns r to line 71.
RunReturns(r) ==
    /\ res' = r
    /\ pc' = AfterRun(r)

\* line 96: terminal.draw(...)?  A drawn frame hides the cursor.
DrawOk ==
    /\ pc = "draw"
    /\ frames < MaxFrames
    /\ frames' = frames + 1
    /\ cursorHidden' = TRUE
    /\ event' = NoEvent
    /\ pc' = "poll"
    /\ UNCHANGED <<rawMode, altScreen, app, res, exitResult, attempted, cwd,
                   cwdOk, fs, now, iters, scans, funVars>>

DrawFails ==
    /\ pc = "draw"
    /\ RunReturns("draw_err")
    /\ UNCHANGED <<rawMode, altScreen, cursorHidden, app, exitResult, attempted,
                   cwd, cwdOk, fs, now, event, frames, iters, scans, funVars>>

\* line 98: event::poll(200 ms)? returns true: an event is waiting.
PollReady ==
    /\ pc = "poll"
    /\ pc' = "read"
    /\ UNCHANGED <<rawMode, altScreen, cursorHidden, app, res, exitResult,
                   attempted, cwd, cwdOk, fs, now, event, frames, iters, scans,
                   funVars>>

\* line 98: poll returns false after the timeout; the iteration ends.
PollTimeout ==
    /\ pc = "poll"
    /\ now < MaxClock
    /\ now' = now + 1
    /\ event' = [kind |-> "timeout", code |-> ""]
    /\ iters' = iters + 1
    /\ pc' = "draw"
    /\ UNCHANGED <<rawMode, altScreen, cursorHidden, app, res, exitResult,
                   attempted, cwd, cwdOk, fs, frames, scans, funVars>>

PollFails ==
    /\ pc = "poll"
    /\ RunReturns("poll_err")
    /\ UNCHANGED <<rawMode, altScreen, cursorHidden, app, exitResult, attempted,
                   cwd, cwdOk, fs, now, event, frames, iters, scans, funVars>>

\* line 99: event::read()?
ReadOk ==
    /\ pc = "read"
    /\ \E e \in Events :
          /\ EventClass(e) = "refresh" => now < MaxClock
          /\ event' = e
    /\ pc' = "dispatch"
    /\ UNCHANGED <<rawMode, altScreen, cursorHidden, app, res, exitResult,
                   attempted, cwd, cwdOk, fs, now, frames, iters, scans, funVars>>

ReadFails ==
    /\ pc = "read"
    /\ RunReturns("read_err")
    /\ UNCHANGED <<rawMode, altScreen, cursorHidden, app, exitResult, attempted,
                   cwd, cwdOk, fs, now, event, frames, iters, scans, funVars>>

\* line 101: return Ok(())
DispatchQuit ==
    /\ pc = "dispatch"
    /\ EventClass(event) = "quit"
    /\ RunReturns("ok")
    /\ UNCHANGED <<rawMode, altScreen, cursorHidden, app, exitResult, attempted,
                   cwd, cwdOk, fs, now, event, frames, iters, scans, funVars>>

\* line 102: self.refresh()?
DispatchRefresh ==
    /\ pc = "dispatch"
    /\ EventClass(event) = "refresh"
    /\ LET made == AppRefresh(app[1], fs, now + 1)
       IN  IF made.ok
           THEN /\ app' = <<made.val>>
                /\ iters' = iters + 1
                /\ pc' = "draw"
                /\ UNCHANGED res
           ELSE /\ RunReturns("scan_err")
                /\ UNCHANGED <<app, iters>>
    /\ now' = now + 1
    /\ scans' = scans + 1
    /\ UNCHANGED <<rawMode, altScreen, cursorHidden, exitResult, attempted, cwd,
                   cwdOk, fs, event, frames, funVars>>

\* lines 99, 103: another key, or an event that is not a key.
DispatchOther ==
    /\ pc = "dispatch"
    /\ EventClass(event) = "other"
    /\ iters' = iters + 1
    /\ pc' = "draw"
    /\ UNCHANGED <<rawMode, altScreen, cursorHidden, app, res, exitResult,
                   attempted, cwd, cwdOk, fs, now, event, frames, scans, funVars>>

\* line 73: disable_raw_mode()?
DisableRawModeOk ==
    /\ pc = "disable_raw"
    /\ attempted' = attempted \cup {"disable_raw_mode"}
    /\ rawMode' = FALSE
    /\ pc' = "leave_alt"
    /\ UNCHANGED <<altScreen, cursorHidden, app, res, exitResult, cwd, cwdOk, fs,
                   now, event, frames, iters, scans, funVars>>

DisableRawModeFails ==
    /\ pc = "disable_raw"
    /\ attempted' = attempted \cup {"disable_raw_mode"}
    /\ ReturnEarly("disable_err")
    /\ UNCHANGED <<rawMode, altScreen, cursorHidden, app, res, cwd, cwdOk, fs,
                   now, event, frames, iters, scans, funVars>>

\* line 74: execute!(terminal.backend_mut(), LeaveAlternateScreen)?
LeaveAlternateScreenOk ==
    /\ pc = "leave_alt"
    /\ attempted' = attempted \cup {"leave_alternate_screen"}
    /\ altScreen' = FALSE
    /\ pc' = "show_cursor"
    /\ UNCHANGED <<rawMode, cursorHidden, app, res, exitResult, cwd, cwdOk, fs,
                   now, event, frames, iters, scans, funVars>>

LeaveAlternateScreenFails ==
    /\ pc = "leave_alt"
    /\ attempted' = attempted \cup {"leave_alternate_screen"}
    /\ ReturnEarly("leave_err")
    /\ UNCHANGED <<rawMode, altScreen, cursorHidden, app, res, cwd, cwdOk, fs,
                   now, event, frames, iters, scans, funVars>>

\* line 75: terminal.show_cursor()?
ShowCursorOk ==
    /\ pc = "show_cursor"
    /\ attempted' = attempted \cup {"show_cursor"}
    /\ cursorHidden' = FALSE
    /\ pc' = "return"
    /\ UNCHANGED <<rawMode, altScreen, app, res, exitResult, cwd, cwdOk, fs, now,
                   event, frames, iters, scans, funVars>>

ShowCursorFails ==
    /\ pc = "show_cursor"
    /\ attempted' = attempted \cup {"show_cursor"}
    /\ ReturnEarly("cursor_err")
    /\ UNCHANGED <<rawMode, altScreen, cursorHidden, app, res, cwd, cwdOk, fs,
                   now, event, frames, iters, scans, funVars>>

\* line 77: res
ReturnRes ==
    /\ pc = "return"
    /\ pc' = "exit"
    /\ exitResult' = res
    /\ UNCHANGED <<rawMode, altScreen, cursorHidden, app, res, attempted, cwd,
                   cwdOk, fs, now, event, frames, iters, scans, funVars>>

\* Another process changes the files under the working directory while
\* the dashboard waits for input.
FsChange ==
    /\ pc = "poll"
    /\ fs' \in SampleTrees \ {fs}
    /\ UNCHANGED <<pc, rawMode, altScreen, cursorHidden, app, res, exitResult,
                   attempted, cwd, cwdOk, now, event, frames, iters, scans,
                   funVars>>

Next ==
    \/ EnableRawModeOk \/ EnableRawModeFails
    \/ EnterAlternateScreenOk \/ EnterAlternateScreenFails
    \/ TerminalNewOk \/ TerminalNewFails
    \/ AppNewStep
    \/ DrawOk \/ DrawFails
    \/ PollReady \/ PollTimeout \/ PollFails
    \/ ReadOk \/ ReadFails
    \/ DispatchQuit \/ DispatchRefresh \/ DispatchOther
    \/ DisableRawModeOk \/ DisableRawModeFails
    \/ LeaveAlternateScreenOk \/ LeaveAlternateScreenFails
    \/ ShowCursorOk \/ ShowCursorFails
    \/ ReturnRes
    \/ FsChange

Spec == Init /\ [][Next]_vars

\* The exit code of the process: main() returning Err ends it with 1.
ExitCode == IF exitResult = "ok" THEN 0 ELSE 1

(***************************************************************************)
(* Claims about the pure functions.                                        *)
(***************************************************************************)

\* C7 (SpecLines): for a readable file with bytes b, count_lines returns 0
\* when b is empty; otherwise, with N the number of 0x0A bytes, N when the
\* last byte is 0x0A and N + 1 when it is not, whatever the other bytes are.
C7_CountLinesRule ==
    (stage = "output" /\ arg.readable) =>
        LET b == arg.content
            N == Cardinality({i \in 1..Len(b) : b[i] = 10})
        IN  /\ ret.ok
            /\ ret.val = IF Len(b) = 0 THEN 0
                         ELSE IF b[Len(b)] = 10 THEN N ELSE N + 1

\* A non-empty file with a newline, a NUL byte and no final newline: 2 lines.
C7_Witness ==
    /\ stage = "output" /\ arg.readable
    /\ arg.content = <<65, 10, 0>>
    /\ ret = Ok(2)

\* The units of a span, by the calendar rule rather than by the code's
\* remainders.
UnitsOf(t) ==
    [d  |-> t \div 86400000,
     h  |-> (t \div 3600000) % 24,
     m  |-> (t \div 60000) % 60,
     s  |-> (t \div 1000) % 60,
     ms |-> t % 1000]

ExpectedParts(t) ==
    LET u == UnitsOf(t)
        all == << <<u.d # 0, ToString(u.d) \o "d">>,
                  <<u.h # 0, ToString(u.h) \o "h">>,
                  <<u.m # 0, ToString(u.m) \o "m">>,
                  <<TRUE, ToString(u.s) \o "s">>,
                  <<t % 1000 # 0, ToString(u.ms) \o "ms">> >>
        IsShown(p) == p[1]
        shown == SelectSeq(all, IsShown)
    IN  [i \in 1..Len(shown) |-> shown[i][2]]

\* C8 (SpecDuration): format_duration returns the space-separated parts in
\* the order d, h, m, s, ms; days, hours and minutes appear exactly when
\* non-zero, seconds always, milliseconds iff t mod 1000 is non-zero; the
\* four quoted examples; the output is never empty.
C8_FormatDurationRule ==
    stage = "output" =>
        /\ ret.parts = ExpectedParts(arg)
        /\ ret.text = Join(ExpectedParts(arg), " ")
        /\ ret.text # ""
        /\ (arg = 0 => ret.text = "0s")
        /\ (arg = 1500 => ret.text = "1s 500ms")
        /\ (arg = 90000 => ret.text = "1m 30s")
        /\ (arg = 3661000 => ret.text = "1h 1m 1s")

\* A whole number of seconds with every larger unit present: no ms part.
C8_Witness ==
    /\ stage = "output"
    /\ arg = 3661000
    /\ ret.parts = <<"1h", "1m", "1s">>
    /\ ret.text = "1h 1m 1s"

\* Number of decimal digits of v, by comparison with powers of ten.
NumDigits(v) == CHOOSE n \in 1..20 : (n = 1 \/ Pow10(n - 1) <= v) /\ v < Pow10(n)

CountOf(seq, x) == Cardinality({i \in 1..Len(seq) : seq[i] = x})

\* The digit characters of a grouped text, commas dropped.
StripCommas(text) == LET NotComma(ch) == ch # "," IN SelectSeq(text, NotComma)

\* C9 (SpecArt): ascii_art_number(v) returns DIGIT_HEIGHT * SCALE_Y = 10
\* rows of one length, built from the decimal text of v with a comma every
\* three digits from the right (never leading or trailing); with d digits
\* and c = (d - 1) div 3 commas each row is 20d + 12c + 2(d - c - 1) wide,
\* and rows 2k and 2k + 1 are identical for k in 0..4.
C9_AsciiArtShape ==
    stage = "output" =>
        LET text == ret.text
            rows == ret.rows
            d == NumDigits(arg)
            c == (d - 1) \div 3
            n == Len(text)
        IN  /\ Len(rows) = 10
            /\ Len(rows) = DIGIT_HEIGHT * SCALE_Y
            /\ StripCommas(text) = ToDecimal(arg)
            /\ Len(StripCommas(text)) = d
            /\ \A i \in 1..n : (text[i] = ",") <=> ((n - i + 1) % 4 = 0)
            /\ text[1] # "," /\ text[n] # ","
            /\ CountOf(text, ",") = c
            /\ \A r \in 1..Len(rows) :
                   Len(rows[r]) = 20 * d + 12 * c + 2 * (d - c - 1)
            /\ \A k \in 0..4 : rows[2 * k + 1] = rows[2 * k + 2]

\* A seven-digit number: two commas, rows 172 characters wide.
C9_Witness ==
    /\ stage = "output"
    /\ Len(ret.text) = 9
    /\ CountOf(ret.text, ",") = 2
    /\ Len(ret.rows) = 10
    /\ Len(ret.rows[1]) = 172

(***************************************************************************)
(* Claims about the directory scan (SpecScan).                             *)
(***************************************************************************)
Scanned == stage \in {"new", "refreshed"}

HasIgnoredName(path) ==
    \E i \in 1..Len(path) : ComponentName(path[i]) \in {".git", "target", "node_modules"}

\* No directory between the root and the file refuses to be listed.
Listable(fsys, f) == fsys.rootOk /\ \A d \in Prefixes(f.dir) : ~IsLocked(d)

\* The line count of a file by the rule of C7, zero when it cannot be read.
LinesOf(f) ==
    LET b == f.content
        N == Cardinality({i \in 1..Len(b) : b[i] = 10})
    IN  IF ~f.readable \/ Len(b) = 0 THEN 0
        ELSE IF b[Len(b)] = 10 THEN N ELSE N + 1

RECURSIVE TotalLines(_)
TotalLines(S) ==
    IF S = {} THEN 0
    ELSE LET f == CHOOSE g \in S : TRUE IN LinesOf(f) + TotalLines(S \ {f})

\* The root's own name followed by the directories down to the file: the
\* directory names of the tree that is scanned.
TreeDirs(root, f) == <<root[Len(root)]>> \o f.dir

\* The files the claim C5 counts: regular files under the root with a
\* recognized extension that are in no subtree of the scanned tree (the
\* root directory included) named .git, target or node_modules.
UnprunedCodeFiles(root, fsys) ==
    {f \in fsys.files : /\ f.kind = "file"
                        /\ IsCodeFile(f.name)
                        /\ ~HasIgnoredName(TreeDirs(root, f))
                        /\ Listable(fsys, f)}

\* C5 (SpecScan): for any root path and any tree, file_count is the number
\* of regular files under the root with a recognized extension that are not
\* inside a subtree whose directory name is .git, target or node_modules,
\* total_lines is the sum of count_lines over exactly those files, and no
\* entry inside such a subtree is visited.
C5_ScanCountsUnprunedCodeFiles ==
    Scanned =>
        /\ ret.scan.ok
        /\ ret.scan.val.files = Cardinality(UnprunedCodeFiles(cwd, fs))
        /\ ret.scan.val.lines = TotalLines(UnprunedCodeFiles(cwd, fs))
        /\ \A e \in ret.visited : ~HasIgnoredName(TreeDirs(cwd, e))

\* What the code does: is_ignored sees the whole path of every entry, the
\* components above the root included.  Below a root with such a component
\* nothing is visited and the result is (0, 0); below any other root the
\* counts are those of C5.
ScanCountsByWholePath ==
    Scanned =>
        /\ \A e \in ret.visited : ~HasIgnoredName(cwd \o e.dir)
        /\ IF HasIgnoredName(cwd)
           THEN ret.visited = {} /\ ret.scan.val.files = 0 /\ ret.scan.val.lines = 0
           ELSE /\ ret.scan.val.files = Cardinality(UnprunedCodeFiles(cwd, fs))
                /\ ret.scan.val.lines = TotalLines(UnprunedCodeFiles(cwd, fs))

\* The code files the walk reaches, stated on the tree and not by the walk.
ReachedCodeFiles(root, fsys) ==
    {f \in fsys.files : /\ f.kind = "file"
                        /\ IsCodeFile(f.name)
                        /\ Listable(fsys, f)
                        /\ ~HasIgnoredName(root \o f.dir \o <<f.name>>)}

\* C6 (SpecScan): scan_directory never returns an error; entries whose
\* traversal fails are skipped, a code file that cannot be read is counted
\* with zero lines, a tree with no eligible file (an empty directory, an
\* inaccessible root) gives (0, 0); so App::new's scan and App::refresh
\* never fail.
C6_ScanNeverFails ==
    Scanned =>
        LET reached == ReachedCodeFiles(cwd, fs)
        IN  /\ ret.scan.ok
            /\ ret.op.ok
            /\ ret.scan.val.files = Cardinality(reached)
            /\ ret.scan.val.lines = TotalLines({f \in reached : f.readable})
            /\ (reached = {} => ret.scan.val.files = 0 /\ ret.scan.val.lines = 0)
            /\ (~fs.rootOk => ret.scan.val.files = 0 /\ ret.scan.val.lines = 0)

\* A refresh over a tree with an unreadable code file and a directory that
\* cannot be listed, next to a readable file: two files, three lines.
C6_Witness ==
    /\ stage = "refreshed"
    /\ ~HasIgnoredName(cwd)
    /\ fs.rootOk
    /\ \E f \in fs.files : f.kind = "file" /\ IsCodeFile(f.name) /\ ~f.readable
    /\ \E f \in fs.files : IsLocked(f.dir)
    /\ ret.op.ok
    /\ ret.scan = Ok([lines |-> 3, files |-> 2, dir |-> cwd, scanned_at |-> 2])

\* The scenario of the specification: main.rs (3 lines, no final newline),
\* README.md (2 lines) and node_modules/lib.js under an ordinary root.
ScenarioReached ==
    /\ stage = "new"
    /\ ~HasIgnoredName(cwd)
    /\ fs.rootOk
    /\ {ComponentName(f.name) : f \in fs.files} = {"main.rs", "README.md", "lib.js"}
    /\ ret.scan.val.files = 2 /\ ret.scan.val.lines = 5

(***************************************************************************)
(* Claims about main() and the run loop (Spec).                            *)
(***************************************************************************)
InitErrors == {"raw_err", "alt_err", "term_err", "cwd_err", "scan_err"}

LoopErrors == {"draw_err", "poll_err", "read_err", "scan_err"}

RestoreErrors == {"disable_err", "leave_err", "cursor_err"}

AllRestoreSteps == {"disable_raw_mode", "leave_alternate_screen", "show_cursor"}

Restored == ~rawMode /\ ~altScreen /\ ~cursorHidden

IsKey(e, codes) == e.kind = "key" /\ e.code \in codes

RefreshStep == pc = "dispatch" /\ IsKey(event, {"r", "R", "Enter"})

\* C1 (Spec): once the App exists its scan root is the working directory
\* of startup, after any sequence of events; a refresh-class key scans that
\* root again, stores the fresh result as the whole ScanResult, sets
\* last_scan to the instant after the scan, and the loop goes on.
C1_RootFixedAndRefreshed ==
    /\ [](app # <<>> => app[1].scan.dir = cwd)
    /\ [][RefreshStep =>
            /\ app'[1].scan = [lines |-> TotalLines({f \in ReachedCodeFiles(cwd, fs) : f.readable}),
                               files |-> Cardinality(ReachedCodeFiles(cwd, fs)),
                               dir |-> cwd,
                               scanned_at |-> now']
            /\ now' > now
            /\ app'[1].last_scan = now'
            /\ scans' = scans + 1
            /\ res' = "none"
            /\ pc' = "draw"]_vars

\* After one refresh: the second scan's result and instant are stored, the
\* root is still the working directory, the next frame is about to be drawn.
C1_Witness ==
    /\ pc = "draw"
    /\ scans = 2
    /\ IsKey(event, {"r", "R", "Enter"})
    /\ app[1].scan.dir = cwd
    /\ app[1].scan.scanned_at = 2
    /\ app[1].last_scan = 2
    /\ app[1].scan.files = 2 /\ app[1].scan.lines = 5

\* C2 as stated (Spec): after a quit-class key the loop ends with success
\* and no rescan, main restores the terminal (raw mode off, alternate screen
\* left, cursor shown) and the process ends with success, exit code 0.
C2_QuitAlwaysRestoresAndSucceeds ==
    (pc = "exit" /\ res = "ok") => (Restored /\ exitResult = "ok" /\ ExitCode = 0)

\* C2 amended (Spec): a quit-class key ends the loop with success and no
\* rescan; main then calls disable_raw_mode, LeaveAlternateScreen and
\* show_cursor in this order; if all three succeed the terminal is restored
\* and the process ends with success (exit code 0); if one fails the later
\* ones are not called and the process ends with that call's error.
C2_QuitRestoresUnlessRestoreFails ==
    /\ [][(pc = "dispatch" /\ IsKey(event, {"q", "Q", "Esc"})) =>
            (res' = "ok" /\ pc' = "disable_raw" /\ app' = app /\ scans' = scans
             /\ attempted' = {})]_vars
    /\ []((pc = "exit" /\ res = "ok") =>
            /\ exitResult \in {"ok"} \cup RestoreErrors
            /\ exitResult = "ok" =>
                  (attempted = AllRestoreSteps /\ Restored /\ ExitCode = 0)
            /\ exitResult = "disable_err" =>
                  (attempted = {"disable_raw_mode"} /\ ExitCode = 1)
            /\ exitResult = "leave_err" =>
                  (attempted = {"disable_raw_mode", "leave_alternate_screen"}
                   /\ ~rawMode /\ ExitCode = 1)
            /\ exitResult = "cursor_err" =>
                  (attempted = AllRestoreSteps /\ ~rawMode /\ ~altScreen
                   /\ ExitCode = 1))

\* Quit with the upper-case letter, all three restoration calls succeed.
C2_Witness ==
    /\ pc = "exit" /\ res = "ok" /\ exitResult = "ok"
    /\ event = [kind |-> "key", code |-> "Q"]
    /\ attempted = AllRestoreSteps
    /\ Restored
    /\ scans = 1

\* C3 (Spec): when draw, poll or read fails the loop ends with that error
\* and main goes on to the restoration; it has called disable_raw_mode
\* before it returns; and whenever the loop's error is the process result,
\* disable_raw_mode, LeaveAlternateScreen and show_cursor have all been
\* called before (and the terminal is restored): the error is never
\* returned from raw / alternate-screen mode with no restoration attempted.
C3_LoopErrorRestoresFirst ==
    /\ res \in LoopErrors =>
          pc \in {"disable_raw", "leave_alt", "show_cursor", "return", "exit"}
    /\ (pc = "exit" /\ res \in LoopErrors) =>
          /\ "disable_raw_mode" \in attempted
          /\ exitResult \in {res} \cup RestoreErrors
    /\ (pc = "exit" /\ exitResult \in LoopErrors) =>
          /\ exitResult = res
          /\ attempted = AllRestoreSteps
          /\ Restored

\* A failed read after a drawn frame, returned after the restoration.
C3_Witness ==
    /\ pc = "exit" /\ res = "read_err" /\ exitResult = "read_err"
    /\ frames >= 1
    /\ attempted = AllRestoreSteps
    /\ Restored

\* C4 (Spec): when startup fails (alternate screen, Terminal::new, or
\* App::new without a working directory) the process ends before the loop
\* and restoration is attempted for what was initialized: raw mode is
\* disabled if it was enabled, the alternate screen left if it was entered.
C4_InitFailureRestores ==
    (pc = "exit" /\ exitResult \in InitErrors /\ res = "none") =>
        /\ frames = 0
        /\ rawMode => "disable_raw_mode" \in attempted
        /\ altScreen => "leave_alternate_screen" \in attempted

\* What holds of the code for C4: startup failures end the process before
\* the loop with no restoration call at all.
InitFailureRestoresNothing ==
    (pc = "exit" /\ exitResult \in InitErrors /\ res = "none") =>
        /\ frames = 0 /\ attempted = {}
        /\ rawMode = (exitResult # "raw_err")
        /\ altScreen = (exitResult \in {"term_err", "cwd_err", "scan_err"})

IdleStep ==
    \/ pc = "dispatch" /\ ~IsKey(event, {"q", "Q", "Esc", "r", "R", "Enter"})
    \/ pc = "poll" /\ event'.kind = "timeout"

\* C10 (Spec): an iteration whose input is a key that neither quits nor
\* refreshes, an event that is not a key, or no event within the poll
\* timeout leaves the ScanResult and last_scan as they are, runs no scan,
\* and goes on to the next iteration, which starts with a draw: one draw per
\* iteration.
C10_IdleIterationKeepsState ==
    /\ [][IdleStep =>
            /\ app' = app
            /\ scans' = scans
            /\ res' = res
            /\ pc' = "draw"
            /\ frames' = frames
            /\ iters' = iters + 1]_vars
    /\ [](pc = "draw" => frames = iters)
    /\ [](pc \in {"poll", "read", "dispatch"} => frames = iters + 1)
    /\ [][pc = "draw" /\ pc' = "poll" => frames' = frames + 1]_vars

\* Two idle iterations, a key that does nothing and a timeout: two frames
\* drawn, still the first scan.
C10_Witness ==
    /\ pc = "draw"
    /\ frames = 2 /\ iters = 2
    /\ scans = 1
    /\ now = 2
    /\ event.kind = "timeout"
    /\ app[1].last_scan = 1
    /\ app[1].scan.scanned_at = 1

====
